---- MODULE Spec2Model ----
(***************************************************************************)
(* The streaming client of the HUD: WebSocketClient                        *)
(* (src/gui/websocketclient.h, src/gui/websocketclient.cpp).               *)
(*                                                                         *)
(* The object's members are the variables.  Every slot and every           *)
(* invokable is a state transformer over a record of the members, written  *)
(* statement by statement as in the source; an action takes the members,   *)
(* applies the transformer and stores the result.  The transport           *)
(* (QWebSocket), the reconnect timer (QTimer) and the UI are the           *)
(* environment: they decide when a slot runs and with which argument.      *)
(*                                                                         *)
(* Numbers that are doubles in the source (temperature, top_p, prob) are   *)
(* carried in hundredths, so 0.8 is 80 and the integer 3 is 300.           *)
(* Log lines are kept without their wall-clock stamp.                      *)
(***************************************************************************)
EXTENDS Integers, Sequences, FiniteSets, TLC

VARIABLES
  m_ws,                 \* QWebSocket: socket state and last error string
  m_reconnectTimer,     \* QTimer: active flag and interval
  m_reconnectAttempt,
  m_connected,
  m_busy,
  m_generated,
  m_tokens,
  m_topk,
  m_sampledId,
  m_sampledToken,
  m_sampledProb,
  m_attentionLayer,
  m_attentionHead,
  m_attentionMatrix,
  m_mlpLayer,
  m_mlpActivations,
  m_residualLayer,
  m_residualNorms,
  m_residualLayersLast,
  m_device,
  m_done,
  m_meta,
  m_lastError,
  m_logLines,
  m_lastJson,
  m_roundTripTimer,     \* QElapsedTimer: milliseconds since the last restart()
  m_roundTripActive,
  m_lastRoundTripMs,
  m_lastPayloadBytes,
  logCap,               \* the cap appendLog runs with (see MAX_LOG_LINES)
  emitted,              \* signals emitted by the last slot, in order
  outbound,             \* payloads the last slot handed to sendTextMessage
  call,                 \* the last slot that ran, with its argument
  awaiting,             \* a request was sent and no text message came since
  disconnects           \* onDisconnected() runs since the last onConnected()

vars == <<m_ws, m_reconnectTimer, m_reconnectAttempt, m_connected, m_busy,
          m_generated, m_tokens, m_topk, m_sampledId, m_sampledToken,
          m_sampledProb, m_attentionLayer, m_attentionHead, m_attentionMatrix,
          m_mlpLayer, m_mlpActivations, m_residualLayer, m_residualNorms,
          m_residualLayersLast, m_device, m_done, m_meta, m_lastError,
          m_logLines, m_lastJson, m_roundTripTimer, m_roundTripActive,
          m_lastRoundTripMs, m_lastPayloadBytes, logCap, emitted, outbound,
          call, awaiting, disconnects>>

(***************************************************************************)
(* Program constants                                                       *)
(***************************************************************************)
MAX_TOKENS_DISPLAY == 256
MAX_LOG_LINES == 500
MAX_JSON_CHARS == 200000
baseMs == 250
maxMs == 5000

(***************************************************************************)
(* Bounds of the exploration                                               *)
(***************************************************************************)
\* disconnects without a successful connect that Spec follows
MaxAttempt == 8
\* the same for SpecMsg, which is about decoding
MsgMaxAttempt == 1
\* milliseconds the round-trip timer is followed for
MaxElapsed == 2
\* entries of the long tokens array
LongTokens == 300
\* log lines kept where the log is not the subject (scaled MAX_LOG_LINES)
LogWindow == 1
\* failed connection attempts in a row that SpecLog follows: two log lines
\* each, enough to pass MAX_LOG_LINES
LogAttempts == 300

wsUrl == "ws://localhost:8765"

Min(a, b) == IF a < b THEN a ELSE b

(***************************************************************************)
(* QJsonValue.  A value is a record tagged with its type.                  *)
(***************************************************************************)
JUndefined == [t |-> "undefined"]
JNull == [t |-> "null"]
JBool(b) == [t |-> "bool", b |-> b]
JDouble(h) == [t |-> "double", h |-> h]
JInt(n) == JDouble(100 * n)
JString(s) == [t |-> "string", s |-> s]
JArray(a) == [t |-> "array", a |-> a]
JObject(o) == [t |-> "object", o |-> o]
EmptyObject == JObject(<<>>)

isArray(v) == v.t = "array"
isObject(v) == v.t = "object"

\* QJsonObject::contains / QJsonObject::value
contains(obj, key) == key \in DOMAIN obj.o
value(obj, key) == IF contains(obj, key) THEN obj.o[key] ELSE JUndefined

\* The typed readers return the default unless the value has the type.
toStringOr(v, def) == IF v.t = "string" THEN v.s ELSE def
toStr(v) == toStringOr(v, "")
toInt(v, def) == IF v.t = "double" /\ v.h % 100 = 0 THEN v.h \div 100 ELSE def
toDouble(v, def) == IF v.t = "double" THEN v.h ELSE def
toBool(v, def) == IF v.t = "bool" THEN v.b ELSE def
toArray(v) == IF v.t = "array" THEN v.a ELSE <<>>
toObject(v) == IF v.t = "object" THEN v ELSE EmptyObject

(***************************************************************************)
(* QVariant, and the codec jsonToVariant                                   *)
(***************************************************************************)
VInvalid == [t |-> "invalid"]

RECURSIVE jsonToVariant(_)
jsonToVariant(v) ==
  CASE v.t = "bool" -> [t |-> "bool", b |-> v.b]
    [] v.t = "double" -> [t |-> "double", h |-> v.h]
    [] v.t = "string" -> [t |-> "string", s |-> v.s]
    [] v.t \in {"null", "undefined"} -> VInvalid
    [] v.t = "array" ->
         [t |-> "list", l |-> [i \in DOMAIN v.a |-> jsonToVariant(v.a[i])]]
    [] v.t = "object" ->
         [t |-> "map", m |-> [k \in DOMAIN v.o |-> jsonToVariant(v.o[k])]]
    [] OTHER -> VInvalid

\* QVariant::toList / QVariant::toMap: empty unless the variant holds one
toList(q) == IF q.t = "list" THEN q.l ELSE <<>>
toMap(q) == IF q.t = "map" THEN q.m ELSE <<>>

(***************************************************************************)
(* Inbound text messages.  A message is its text, the size of the text in  *)
(* characters and in UTF-8 bytes, and what QJsonDocument::fromJson makes   *)
(* of it: the parse error and the document.                                *)
(***************************************************************************)
Message(text, error, doc) ==
  [text |-> text, size |-> Len(text), utf8 |-> Len(text),
   error |-> error, doc |-> doc]

fromJson(message) == [error |-> message.error, doc |-> message.doc]

errorString(error) ==
  CASE error = "NoError" -> "no error occurred"
    [] error = "IllegalValue" -> "illegal value"
    [] OTHER -> "unterminated object"

MsgMalformed == Message("{oops", "IllegalValue", JNull)
MsgArray == Message("[1]", "NoError", JArray(<<JInt(1)>>))
MsgEmpty == Message("{}", "NoError", EmptyObject)
MsgTokensAB ==
  Message("{\"tokens\":[\"a\",\"b\"]}", "NoError",
          JObject([tokens |-> JArray(<<JString("a"), JString("b")>>)]))
\* entry i (counted from 0) of the long array is the string of i; the text
\* of the message is abbreviated
LongArray == [i \in 1..LongTokens |-> JString(ToString(i - 1))]
MsgTokensLong ==
  Message("{\"tokens\":[\"0\",...]}", "NoError",
          JObject([tokens |-> JArray(LongArray)]))
MsgScenario2 ==
  Message("{\"generated\":\"hi\",\"meta\":{\"device\":\"cpu\",\"done\":false}}",
          "NoError",
          JObject([generated |-> JString("hi"),
                   meta |-> JObject([device |-> JString("cpu"),
                                     done |-> JBool(FALSE)])]))
MsgFull ==
  Message("{\"tokens\":[\"c\"],\"generated\":\"yo\",\"sampled\":{\"id\":7,\"token\":\"c\",\"prob\":0.25},\"topk\":[{\"token\":\"c\",\"prob\":0.25}],\"attention\":{\"layer\":1,\"head\":2,\"matrix\":[[1,0],[0.5,0.5]]},\"mlp\":{\"layer\":1,\"activations\":[0.1]},\"residual\":{\"layer\":1,\"norms\":[1]},\"residual_layers_last\":[1,2],\"meta\":{\"device\":\"cuda\",\"done\":true,\"step\":3}}",
          "NoError",
          JObject([tokens |-> JArray(<<JString("c")>>),
                   generated |-> JString("yo"),
                   sampled |-> JObject([id |-> JInt(7), token |-> JString("c"),
                                        prob |-> JDouble(25)]),
                   topk |-> JArray(<<JObject([token |-> JString("c"),
                                              prob |-> JDouble(25)])>>),
                   attention |->
                     JObject([layer |-> JInt(1), head |-> JInt(2),
                              matrix |-> JArray(<<JArray(<<JInt(1), JInt(0)>>),
                                                  JArray(<<JDouble(50),
                                                           JDouble(50)>>)>>)]),
                   mlp |-> JObject([layer |-> JInt(1),
                                    activations |-> JArray(<<JDouble(10)>>)]),
                   residual |-> JObject([layer |-> JInt(1),
                                         norms |-> JArray(<<JInt(1)>>)]),
                   residual_layers_last |-> JArray(<<JInt(1), JInt(2)>>),
                   meta |-> JObject([device |-> JString("cuda"),
                                     done |-> JBool(TRUE),
                                     step |-> JInt(3)])]))
\* sub-fields missing or of another type
MsgPartial ==
  Message("{\"sampled\":{},\"attention\":{\"layer\":2.5,\"head\":3},\"meta\":{}}",
          "NoError",
          JObject([sampled |-> EmptyObject,
                   attention |-> JObject([layer |-> JDouble(250),
                                          head |-> JInt(3)]),
                   meta |-> EmptyObject]))
\* every facet key present, none with the type the decoder asks for
MsgIllTyped ==
  Message("{\"tokens\":\"oops\",\"generated\":5,\"sampled\":[],\"topk\":{},\"attention\":\"a\",\"mlp\":1,\"residual\":null,\"residual_layers_last\":3,\"meta\":[]}",
          "NoError",
          JObject([tokens |-> JString("oops"),
                   generated |-> JInt(5),
                   sampled |-> JArray(<<>>),
                   topk |-> EmptyObject,
                   attention |-> JString("a"),
                   mlp |-> JInt(1),
                   residual |-> JNull,
                   residual_layers_last |-> JInt(3),
                   meta |-> JArray(<<>>)]))
MsgError ==
  Message("{\"error\":\"x\",\"tokens\":[\"z\"],\"generated\":\"zz\"}", "NoError",
          JObject([error |-> JString("x"),
                   tokens |-> JArray(<<JString("z")>>),
                   generated |-> JString("zz")]))
MsgErrorOnly == Message("{\"error\":\"x\"}", "NoError",
                        JObject([error |-> JString("x")]))
MsgErrorNumber == Message("{\"error\":7}", "NoError",
                          JObject([error |-> JInt(7)]))
MsgErrorEmpty == Message("{\"error\":\"\"}", "NoError",
                         JObject([error |-> JString("")]))

\* what the backend sends in Spec: a reply, backend errors (with a text, with
\* a number, with an empty text), garbage, and JSON that is not an object
ConnMessages == {MsgEmpty, MsgError, MsgErrorNumber, MsgErrorEmpty,
                 MsgMalformed, MsgArray}
\* what it sends in SpecMsg
Messages == {MsgMalformed, MsgArray, MsgEmpty, MsgTokensAB, MsgTokensLong,
             MsgScenario2, MsgFull, MsgPartial, MsgIllTyped, MsgError,
             MsgErrorOnly, MsgErrorNumber}

\* what it sends in SpecFrame: telemetry, a backend error, garbage
FrameMessages == {MsgTokensAB, MsgScenario2, MsgError, MsgMalformed}

\* the arguments the UI calls step() with
StepCalls ==
  {[prompt |-> "hello", temperature |-> 80, topK |-> 40, topP |-> 90,
    vizLayer |-> 1, vizHead |-> 2],
   [prompt |-> "", temperature |-> 100, topK |-> 5, topP |-> 95,
    vizLayer |-> 0, vizHead |-> 0]}

\* the error texts the transport reports
SocketErrors == {"Connection refused"}

(***************************************************************************)
(* The members as one record, and back                                     *)
(***************************************************************************)
Members ==
  [m_ws |-> m_ws, m_reconnectTimer |-> m_reconnectTimer,
   m_reconnectAttempt |-> m_reconnectAttempt, m_connected |-> m_connected,
   m_busy |-> m_busy, m_generated |-> m_generated, m_tokens |-> m_tokens,
   m_topk |-> m_topk, m_sampledId |-> m_sampledId,
   m_sampledToken |-> m_sampledToken, m_sampledProb |-> m_sampledProb,
   m_attentionLayer |-> m_attentionLayer, m_attentionHead |-> m_attentionHead,
   m_attentionMatrix |-> m_attentionMatrix, m_mlpLayer |-> m_mlpLayer,
   m_mlpActivations |-> m_mlpActivations, m_residualLayer |-> m_residualLayer,
   m_residualNorms |-> m_residualNorms,
   m_residualLayersLast |-> m_residualLayersLast, m_device |-> m_device,
   m_done |-> m_done, m_meta |-> m_meta, m_lastError |-> m_lastError,
   m_logLines |-> m_logLines, m_lastJson |-> m_lastJson,
   m_roundTripTimer |-> m_roundTripTimer,
   m_roundTripActive |-> m_roundTripActive,
   m_lastRoundTripMs |-> m_lastRoundTripMs,
   m_lastPayloadBytes |-> m_lastPayloadBytes,
   logCap |-> logCap, emitted |-> <<>>, outbound |-> <<>>]

Store(s) ==
  /\ m_ws' = s.m_ws
  /\ m_reconnectTimer' = s.m_reconnectTimer
  /\ m_reconnectAttempt' = s.m_reconnectAttempt
  /\ m_connected' = s.m_connected
  /\ m_busy' = s.m_busy
  /\ m_generated' = s.m_generated
  /\ m_tokens' = s.m_tokens
  /\ m_topk' = s.m_topk
  /\ m_sampledId' = s.m_sampledId
  /\ m_sampledToken' = s.m_sampledToken
  /\ m_sampledProb' = s.m_sampledProb
  /\ m_attentionLayer' = s.m_attentionLayer
  /\ m_attentionHead' = s.m_attentionHead
  /\ m_attentionMatrix' = s.m_attentionMatrix
  /\ m_mlpLayer' = s.m_mlpLayer
  /\ m_mlpActivations' = s.m_mlpActivations
  /\ m_residualLayer' = s.m_residualLayer
  /\ m_residualNorms' = s.m_residualNorms
  /\ m_residualLayersLast' = s.m_residualLayersLast
  /\ m_device' = s.m_device
  /\ m_done' = s.m_done
  /\ m_meta' = s.m_meta
  /\ m_lastError' = s.m_lastError
  /\ m_logLines' = s.m_logLines
  /\ m_lastJson' = s.m_lastJson
  /\ m_roundTripTimer' = s.m_roundTripTimer
  /\ m_roundTripActive' = s.m_roundTripActive
  /\ m_lastRoundTripMs' = s.m_lastRoundTripMs
  /\ m_lastPayloadBytes' = s.m_lastPayloadBytes
  /\ logCap' = s.logCap
  /\ emitted' = s.emitted
  /\ outbound' = s.outbound

Emit(s, signal) == [s EXCEPT !.emitted = Append(@, signal)]

(***************************************************************************)
(* Text formatting                                                         *)
(***************************************************************************)
\* QString::number(x, 'f', 2) of a value in hundredths
Fixed2(h) ==
  ToString(h \div 100) \o "." \o ToString((h % 100) \div 10)
    \o ToString(h % 10)
\* QString::number(x, 'f', 0) of a whole number
Fixed0(n) == ToString(n)

(***************************************************************************)
(* setLastError, appendLog, clearLog                                       *)
(***************************************************************************)
setLastError(s, err) ==
  IF s.m_lastError = err
  THEN s
  ELSE Emit([s EXCEPT !.m_lastError = err], "lastErrorChanged")

\* QList::mid(pos): the entries from index pos (counted from 0) to the end
mid(list, pos) == SubSeq(list, pos + 1, Len(list))

\* appendLog that drops the new lines once the log is full
appendLogKeepsOldest(s, line) ==
  LET appended == Append(s.m_logLines, line)
      kept == IF Len(appended) > s.logCap
              THEN SubSeq(appended, 1, s.logCap)
              ELSE appended
  IN Emit([s EXCEPT !.m_logLines = kept], "logLinesChanged")

appendLog(s, line) ==
  LET appended == Append(s.m_logLines, line)
      kept == IF Len(appended) > s.logCap
              THEN mid(appended, Len(appended) - s.logCap)
              ELSE appended
  IN Emit([s EXCEPT !.m_logLines = kept], "logLinesChanged")

\* clearLog without the test for an empty log
clearLogAlwaysNotifies(s) ==
  Emit([s EXCEPT !.m_logLines = <<>>], "logLinesChanged")

clearLog(s) ==
  IF s.m_logLines = <<>>
  THEN s
  ELSE Emit([s EXCEPT !.m_logLines = <<>>], "logLinesChanged")

(***************************************************************************)
(* connectNow, onConnected, onDisconnected, onErrorOccurred                *)
(***************************************************************************)
\* QWebSocket::open: the socket starts its handshake
open(s) == [s EXCEPT !.m_ws.state = "Connecting"]

\* connectNow that leaves the last error standing
connectNowKeepsError(s) ==
  LET s2 == IF s.m_reconnectAttempt > 0
            THEN appendLog(s, "Connecting to " \o wsUrl \o " (attempt "
                                \o ToString(s.m_reconnectAttempt) \o ")...")
            ELSE appendLog(s, "Connecting to " \o wsUrl \o "...")
  IN open(s2)

connectNow(s) ==
  LET s1 == setLastError(s, "")
      s2 == IF s1.m_reconnectAttempt > 0
            THEN appendLog(s1, "Connecting to " \o wsUrl \o " (attempt "
                                 \o ToString(s1.m_reconnectAttempt) \o ")...")
            ELSE appendLog(s1, "Connecting to " \o wsUrl \o "...")
  IN open(s2)

\* onConnected without the reset of the attempt counter
onConnectedKeepsAttempt(s) ==
  LET s1 == [s EXCEPT !.m_connected = TRUE]
      s2 == Emit(s1, "connectedChanged")
      s3 == setLastError(s2, "")
  IN appendLog(s3, "CONNECTED")

\* onConnected that does not tell the UI
onConnectedSilent(s) ==
  LET s1 == [s EXCEPT !.m_connected = TRUE, !.m_reconnectAttempt = 0]
      s3 == setLastError(s1, "")
  IN appendLog(s3, "CONNECTED")

onConnected(s) ==
  LET s1 == [s EXCEPT !.m_connected = TRUE, !.m_reconnectAttempt = 0]
      s2 == Emit(s1, "connectedChanged")
      s3 == setLastError(s2, "")
  IN appendLog(s3, "CONNECTED")

\* 1 << n; n is at most 5 where it is used, far from the width of an int
ShiftLeft1(n) == 2 ^ n

\* the delay without the cap of maxMs
backoffDelayUncapped(attempt) ==
  LET shift == Min(attempt, 5)
  IN baseMs * ShiftLeft1(shift)

\* lines 56-59: the delay onDisconnected computes from the attempt counter
backoffDelay(attempt) ==
  LET shift == Min(attempt, 5)
  IN Min(maxMs, baseMs * ShiftLeft1(shift))

\* start that sets the interval and leaves the timer stopped
startUnarmed(timer, msec) == [active |-> FALSE, interval |-> msec]

\* QTimer::start(msec): (re)arms the single-shot timer
start(timer, msec) == [active |-> TRUE, interval |-> msec]

\* onDisconnected with a retry limit: no timer after the third failure
onDisconnectedGivesUp(s) ==
  LET s1 == Emit([s EXCEPT !.m_connected = FALSE], "connectedChanged")
      s2 == IF s1.m_busy
            THEN Emit([s1 EXCEPT !.m_busy = FALSE], "busyChanged")
            ELSE s1
      delay == backoffDelay(s2.m_reconnectAttempt)
      s3 == [s2 EXCEPT !.m_reconnectAttempt = @ + 1]
      s4 == IF s3.m_reconnectAttempt <= 3
            THEN [s3 EXCEPT !.m_reconnectTimer = start(@, delay)]
            ELSE s3
  IN appendLog(s4, "DISCONNECTED (reconnect in " \o ToString(delay) \o "ms)")

\* onDisconnected that starts the next connection with an empty frame
onDisconnectedResetsFrame(s) ==
  LET s1 == Emit([s EXCEPT !.m_connected = FALSE, !.m_tokens = <<>>,
                           !.m_generated = ""], "connectedChanged")
      s2 == IF s1.m_busy
            THEN Emit([s1 EXCEPT !.m_busy = FALSE], "busyChanged")
            ELSE s1
      delay == backoffDelay(s2.m_reconnectAttempt)
      s3 == [s2 EXCEPT !.m_reconnectAttempt = @ + 1]
      s4 == [s3 EXCEPT !.m_reconnectTimer = start(@, delay)]
  IN appendLog(s4, "DISCONNECTED (reconnect in " \o ToString(delay) \o "ms)")

\* onDisconnected that gives up the round trip under way
onDisconnectedCancelsRoundTrip(s) ==
  LET s1 == Emit([s EXCEPT !.m_connected = FALSE], "connectedChanged")
      s2 == IF s1.m_busy
            THEN Emit([s1 EXCEPT !.m_busy = FALSE], "busyChanged")
            ELSE s1
      delay == backoffDelay(s2.m_reconnectAttempt)
      s3 == [s2 EXCEPT !.m_reconnectAttempt = @ + 1,
                       !.m_roundTripActive = FALSE]
      s4 == [s3 EXCEPT !.m_reconnectTimer = start(@, delay)]
  IN appendLog(s4, "DISCONNECTED (reconnect in " \o ToString(delay) \o "ms)")

onDisconnected(s) ==
  LET s1 == Emit([s EXCEPT !.m_connected = FALSE], "connectedChanged")
      s2 == IF s1.m_busy
            THEN Emit([s1 EXCEPT !.m_busy = FALSE], "busyChanged")
            ELSE s1
      delay == backoffDelay(s2.m_reconnectAttempt)
      s3 == [s2 EXCEPT !.m_reconnectAttempt = @ + 1]
      s4 == [s3 EXCEPT !.m_reconnectTimer = start(@, delay)]
  IN appendLog(s4, "DISCONNECTED (reconnect in " \o ToString(delay) \o "ms)")

\* onErrorOccurred that takes the error for the end of the connection
onErrorOccurredDisconnects(s) ==
  LET s1 == setLastError(s, s.m_ws.errorString)
      s2 == appendLog(s1, "SOCKET ERROR: " \o s.m_ws.errorString)
  IN IF s2.m_connected
     THEN Emit([s2 EXCEPT !.m_connected = FALSE, !.m_busy = FALSE],
               "connectedChanged")
     ELSE s2

onErrorOccurred(s) ==
  LET s1 == setLastError(s, s.m_ws.errorString)
  IN appendLog(s1, "SOCKET ERROR: " \o s.m_ws.errorString)

(***************************************************************************)
(* onTextMessageReceived                                                   *)
(***************************************************************************)
\* QString::left(n); no text of the model is longer than MAX_JSON_CHARS
left(text, n) == IF Len(text) <= n THEN text ELSE "(cut)"

\* lines 128-136: the raw payload, capped
cacheRaw(s, message) ==
  LET clipped == IF message.size > MAX_JSON_CHARS
                 THEN left(message.text, MAX_JSON_CHARS)
                        \o "\n...(truncated)..."
                 ELSE message.text
  IN IF s.m_lastJson # clipped
     THEN Emit([s EXCEPT !.m_lastJson = clipped], "lastJsonChanged")
     ELSE s

\* measure without the test of m_roundTripActive
measureAlways(s, message) ==
  LET payloadBytes == message.utf8
      dirty1 == s.m_lastPayloadBytes # payloadBytes
      s1 == IF dirty1 THEN [s EXCEPT !.m_lastPayloadBytes = payloadBytes] ELSE s
      ms == s1.m_roundTripTimer
      rtt == IF ms < 0 THEN 0 ELSE ms
      dirty2 == s1.m_lastRoundTripMs # rtt
      s2 == [s1 EXCEPT !.m_roundTripActive = FALSE, !.m_lastRoundTripMs = rtt]
  IN IF dirty1 \/ dirty2 THEN Emit(s2, "perfChanged") ELSE s2

\* lines 138-156: payload size and round trip, one perfChanged for both
measure(s, message) ==
  LET payloadBytes == message.utf8
      dirty1 == s.m_lastPayloadBytes # payloadBytes
      s1 == IF dirty1 THEN [s EXCEPT !.m_lastPayloadBytes = payloadBytes] ELSE s
      ms == s1.m_roundTripTimer
      rtt == IF ms < 0 THEN 0 ELSE ms
      dirty2 == s1.m_roundTripActive /\ s1.m_lastRoundTripMs # rtt
      s2 == IF s1.m_roundTripActive
            THEN [s1 EXCEPT !.m_roundTripActive = FALSE,
                            !.m_lastRoundTripMs =
                               IF @ # rtt THEN rtt ELSE @]
            ELSE s1
  IN IF dirty1 \/ dirty2 THEN Emit(s2, "perfChanged") ELSE s2

\* a message that leaves busy as it is
clearBusyForgotten(s) == s

\* lines 158-161
clearBusy(s) ==
  IF s.m_busy THEN Emit([s EXCEPT !.m_busy = FALSE], "busyChanged") ELSE s

\* decodeTokens that empties the list when the key is missing
decodeTokensResets(s, root) ==
  IF contains(root, "tokens") /\ isArray(value(root, "tokens"))
  THEN LET arr == toArray(value(root, "tokens"))
           n == Len(arr)
           first == IF n > MAX_TOKENS_DISPLAY THEN n - MAX_TOKENS_DISPLAY ELSE 0
           out == [i \in 1..(n - first) |-> toStr(arr[first + i])]
       IN Emit([s EXCEPT !.m_tokens = out], "tokensChanged")
  ELSE [s EXCEPT !.m_tokens = <<>>]

\* decodeTokens that notifies only when the list changes
decodeTokensDirtyChecked(s, root) ==
  IF contains(root, "tokens") /\ isArray(value(root, "tokens"))
  THEN LET arr == toArray(value(root, "tokens"))
           n == Len(arr)
           first == IF n > MAX_TOKENS_DISPLAY THEN n - MAX_TOKENS_DISPLAY ELSE 0
           out == [i \in 1..(n - first) |-> toStr(arr[first + i])]
       IN IF s.m_tokens # out
          THEN Emit([s EXCEPT !.m_tokens = out], "tokensChanged")
          ELSE s
  ELSE s

\* decodeTokens that keeps the leading entries
decodeTokensKeepsHead(s, root) ==
  IF contains(root, "tokens") /\ isArray(value(root, "tokens"))
  THEN LET arr == toArray(value(root, "tokens"))
           n == Len(arr)
           out == [i \in 1..Min(n, MAX_TOKENS_DISPLAY) |-> toStr(arr[i])]
       IN Emit([s EXCEPT !.m_tokens = out], "tokensChanged")
  ELSE s

\* lines 180-192
decodeTokens(s, root) ==
  IF contains(root, "tokens") /\ isArray(value(root, "tokens"))
  THEN LET arr == toArray(value(root, "tokens"))
           n == Len(arr)
           first == IF n > MAX_TOKENS_DISPLAY THEN n - MAX_TOKENS_DISPLAY ELSE 0
           out == [i \in 1..(n - first) |-> toStr(arr[first + i])]
       IN Emit([s EXCEPT !.m_tokens = out], "tokensChanged")
  ELSE s

\* lines 194-198
decodeGenerated(s, root) ==
  IF contains(root, "generated")
  THEN Emit([s EXCEPT !.m_generated = toStr(value(root, "generated"))],
            "generatedChanged")
  ELSE s

\* lines 200-207
decodeSampled(s, root) ==
  IF contains(root, "sampled") /\ isObject(value(root, "sampled"))
  THEN LET o == toObject(value(root, "sampled"))
       IN Emit([s EXCEPT !.m_sampledId = toInt(value(o, "id"), -1),
                         !.m_sampledToken = toStr(value(o, "token")),
                         !.m_sampledProb = toDouble(value(o, "prob"), 0)],
               "sampledChanged")
  ELSE s

\* lines 209-219
decodeTopk(s, root) ==
  IF contains(root, "topk") /\ isArray(value(root, "topk"))
  THEN LET arr == toArray(value(root, "topk"))
           list == [i \in DOMAIN arr |-> jsonToVariant(arr[i])]
       IN Emit([s EXCEPT !.m_topk = list], "topkChanged")
  ELSE s

\* lines 221-230
decodeAttention(s, root) ==
  IF contains(root, "attention") /\ isObject(value(root, "attention"))
  THEN LET a == toObject(value(root, "attention"))
           s1 == [s EXCEPT
                    !.m_attentionLayer = toInt(value(a, "layer"), @),
                    !.m_attentionHead = toInt(value(a, "head"), @)]
           s2 == IF contains(a, "matrix")
                 THEN [s1 EXCEPT !.m_attentionMatrix =
                                    toList(jsonToVariant(value(a, "matrix")))]
                 ELSE s1
       IN Emit(s2, "attentionChanged")
  ELSE s

\* lines 232-240
decodeMlp(s, root) ==
  IF contains(root, "mlp") /\ isObject(value(root, "mlp"))
  THEN LET m == toObject(value(root, "mlp"))
           s1 == [s EXCEPT !.m_mlpLayer = toInt(value(m, "layer"), @)]
           s2 == IF contains(m, "activations")
                 THEN [s1 EXCEPT !.m_mlpActivations =
                                    toList(jsonToVariant(value(m, "activations")))]
                 ELSE s1
       IN Emit(s2, "mlpChanged")
  ELSE s

\* lines 242-250
decodeResidual(s, root) ==
  IF contains(root, "residual") /\ isObject(value(root, "residual"))
  THEN LET r == toObject(value(root, "residual"))
           s1 == [s EXCEPT !.m_residualLayer = toInt(value(r, "layer"), @)]
           s2 == IF contains(r, "norms")
                 THEN [s1 EXCEPT !.m_residualNorms =
                                    toList(jsonToVariant(value(r, "norms")))]
                 ELSE s1
       IN Emit(s2, "residualChanged")
  ELSE s

\* lines 252-256
decodeResidualLayersLast(s, root) ==
  IF contains(root, "residual_layers_last")
  THEN Emit([s EXCEPT !.m_residualLayersLast =
                         toList(jsonToVariant(value(root, "residual_layers_last")))],
            "residualLayersLastChanged")
  ELSE s

\* lines 258-266
decodeMeta(s, root) ==
  IF contains(root, "meta") /\ isObject(value(root, "meta"))
  THEN LET meta == toObject(value(root, "meta"))
       IN Emit([s EXCEPT
                  !.m_meta = toMap(jsonToVariant(meta)),
                  !.m_device = toStringOr(value(meta, "device"), @),
                  !.m_done = toBool(value(meta, "done"), FALSE)],
               "metaChanged")
  ELSE s

\* lines 178-271: a parsed object without an error field
decodeFacets(s, root, payloadBytes) ==
  LET s0 == setLastError(s, "")
      s1 == decodeTokens(s0, root)
      s2 == decodeGenerated(s1, root)
      s3 == decodeSampled(s2, root)
      s4 == decodeTopk(s3, root)
      s5 == decodeAttention(s4, root)
      s6 == decodeMlp(s5, root)
      s7 == decodeResidual(s6, root)
      s8 == decodeResidualLayersLast(s7, root)
      s9 == decodeMeta(s8, root)
  IN appendLog(s9, "RECV " \o ToString(payloadBytes) \o " bytes  rtt="
                     \o Fixed0(s9.m_lastRoundTripMs) \o "ms  done="
                     \o (IF s9.m_done THEN "true" ELSE "false"))

\* lines 171-176
backendError(s, root) ==
  LET s1 == setLastError(s, toStr(value(root, "error")))
  IN appendLog(s1, "BACKEND ERROR: " \o s1.m_lastError)

\* lines 163-169
parseFailure(s, parsed, payloadBytes) ==
  LET s1 == setLastError(s, "JSON parse error: " \o errorString(parsed.error))
  IN appendLog(s1, "RECV INVALID JSON (" \o ToString(payloadBytes)
                     \o " bytes): " \o errorString(parsed.error))

\* onTextMessageReceived that goes on to the facets after an error field
onTextMessageReceivedNoStop(s, message) ==
  LET s1 == cacheRaw(s, message)
      s2 == measure(s1, message)
      s3 == clearBusy(s2)
      parsed == fromJson(message)
  IN IF parsed.error # "NoError" \/ ~isObject(parsed.doc)
     THEN parseFailure(s3, parsed, message.utf8)
     ELSE IF contains(parsed.doc, "error")
          THEN decodeFacets(backendError(s3, parsed.doc), parsed.doc,
                            message.utf8)
          ELSE decodeFacets(s3, parsed.doc, message.utf8)

\* onTextMessageReceived that parses first and drops what does not parse
\* before the payload is cached, measured and busy cleared
onTextMessageReceivedParsesFirst(s, message) ==
  LET s1 == cacheRaw(s, message)
      s2 == measure(s1, message)
      s3 == clearBusy(s2)
      parsed == fromJson(message)
  IN IF parsed.error # "NoError" \/ ~isObject(parsed.doc)
     THEN parseFailure(s, parsed, message.utf8)
     ELSE IF contains(parsed.doc, "error")
          THEN backendError(s3, parsed.doc)
          ELSE decodeFacets(s3, parsed.doc, message.utf8)

onTextMessageReceived(s, message) ==
  LET s1 == cacheRaw(s, message)
      s2 == measure(s1, message)
      s3 == clearBusy(s2)
      parsed == fromJson(message)
  IN IF parsed.error # "NoError" \/ ~isObject(parsed.doc)
     THEN parseFailure(s3, parsed, message.utf8)
     ELSE IF contains(parsed.doc, "error")
          THEN backendError(s3, parsed.doc)
          ELSE decodeFacets(s3, parsed.doc, message.utf8)

(***************************************************************************)
(* step                                                                    *)
(***************************************************************************)
\* the request with top_k and top_p exchanged
requestSwapped(prompt, temperature, topK, topP, vizLayer, vizHead) ==
  JObject([prompt |-> JString(prompt),
           temperature |-> JDouble(temperature),
           top_k |-> JDouble(topP),
           top_p |-> JInt(topK),
           step |-> JBool(TRUE),
           viz_layer |-> JInt(vizLayer),
           viz_head |-> JInt(vizHead)])

\* lines 291-298: the request object
request(prompt, temperature, topK, topP, vizLayer, vizHead) ==
  JObject([prompt |-> JString(prompt),
           temperature |-> JDouble(temperature),
           top_k |-> JInt(topK),
           top_p |-> JDouble(topP),
           step |-> JBool(TRUE),
           viz_layer |-> JInt(vizLayer),
           viz_head |-> JInt(vizHead)])

\* QWebSocket::sendTextMessage
sendTextMessage(s, payload) == [s EXCEPT !.outbound = Append(@, payload)]

\* QElapsedTimer::restart
restart(s) == [s EXCEPT !.m_roundTripTimer = 0]

\* lines 277-279: the request is refused
stepBlocked(s) ==
  LET s1 == setLastError(s, "Not connected to backend (" \o wsUrl \o ").")
  IN appendLog(s1, "STEP blocked (not connected)")

\* stepSend that measures from the first of the requests under way: the
\* timer is restarted only when the client is not busy
stepSendKeepsTimer(s, prompt, temperature, topK, topP, vizLayer, vizHead) ==
  LET willReset == prompt # ""
      s1 == appendLog(s, "STEP reset=" \o (IF willReset THEN "yes" ELSE "no")
                           \o " temp=" \o Fixed2(temperature)
                           \o " topk=" \o ToString(topK)
                           \o " topp=" \o Fixed2(topP)
                           \o " layer=" \o ToString(vizLayer)
                           \o " head=" \o ToString(vizHead))
      obj == request(prompt, temperature, topK, topP, vizLayer, vizHead)
      s2 == sendTextMessage(s1, obj)
      s3 == IF s2.m_busy THEN s2 ELSE restart(s2)
      s4 == [s3 EXCEPT !.m_roundTripActive = TRUE]
  IN IF ~s4.m_busy
     THEN Emit([s4 EXCEPT !.m_busy = TRUE], "busyChanged")
     ELSE s4

\* lines 282-309: the request is sent
stepSend(s, prompt, temperature, topK, topP, vizLayer, vizHead) ==
  LET willReset == prompt # ""
      s1 == appendLog(s, "STEP reset=" \o (IF willReset THEN "yes" ELSE "no")
                           \o " temp=" \o Fixed2(temperature)
                           \o " topk=" \o ToString(topK)
                           \o " topp=" \o Fixed2(topP)
                           \o " layer=" \o ToString(vizLayer)
                           \o " head=" \o ToString(vizHead))
      obj == request(prompt, temperature, topK, topP, vizLayer, vizHead)
      s2 == sendTextMessage(s1, obj)
      s3 == restart(s2)
      s4 == [s3 EXCEPT !.m_roundTripActive = TRUE]
  IN IF ~s4.m_busy
     THEN Emit([s4 EXCEPT !.m_busy = TRUE], "busyChanged")
     ELSE s4

\* step without its connection check
stepUnchecked(s, prompt, temperature, topK, topP, vizLayer, vizHead) ==
  stepSend(s, prompt, temperature, topK, topP, vizLayer, vizHead)

step(s, prompt, temperature, topK, topP, vizLayer, vizHead) ==
  IF ~s.m_connected
  THEN stepBlocked(s)
  ELSE stepSend(s, prompt, temperature, topK, topP, vizLayer, vizHead)

(***************************************************************************)
(* The state after construction (lines 14-24, and the member initialisers  *)
(* of websocketclient.h lines 123-161): connectNow() has run.              *)
(***************************************************************************)
Fresh(cap) ==
  [m_ws |-> [state |-> "Unconnected", errorString |-> ""],
   m_reconnectTimer |-> [active |-> FALSE, interval |-> 0],
   m_reconnectAttempt |-> 0, m_connected |-> FALSE, m_busy |-> FALSE,
   m_generated |-> "", m_tokens |-> <<>>, m_topk |-> <<>>,
   m_sampledId |-> -1, m_sampledToken |-> "", m_sampledProb |-> 0,
   m_attentionLayer |-> 0, m_attentionHead |-> 0, m_attentionMatrix |-> <<>>,
   m_mlpLayer |-> 0, m_mlpActivations |-> <<>>, m_residualLayer |-> 0,
   m_residualNorms |-> <<>>, m_residualLayersLast |-> <<>>,
   m_device |-> "unknown", m_done |-> FALSE, m_meta |-> <<>>,
   m_lastError |-> "", m_logLines |-> <<>>, m_lastJson |-> "",
   m_roundTripTimer |-> 0, m_roundTripActive |-> FALSE,
   m_lastRoundTripMs |-> 0, m_lastPayloadBytes |-> 0,
   logCap |-> cap, emitted |-> <<>>, outbound |-> <<>>]

Constructed(cap) ==
  LET s == connectNow(Fresh(cap))
  IN /\ m_ws = s.m_ws
     /\ m_reconnectTimer = s.m_reconnectTimer
     /\ m_reconnectAttempt = s.m_reconnectAttempt
     /\ m_connected = s.m_connected
     /\ m_busy = s.m_busy
     /\ m_generated = s.m_generated
     /\ m_tokens = s.m_tokens
     /\ m_topk = s.m_topk
     /\ m_sampledId = s.m_sampledId
     /\ m_sampledToken = s.m_sampledToken
     /\ m_sampledProb = s.m_sampledProb
     /\ m_attentionLayer = s.m_attentionLayer
     /\ m_attentionHead = s.m_attentionHead
     /\ m_attentionMatrix = s.m_attentionMatrix
     /\ m_mlpLayer = s.m_mlpLayer
     /\ m_mlpActivations = s.m_mlpActivations
     /\ m_residualLayer = s.m_residualLayer
     /\ m_residualNorms = s.m_residualNorms
     /\ m_residualLayersLast = s.m_residualLayersLast
     /\ m_device = s.m_device
     /\ m_done = s.m_done
     /\ m_meta = s.m_meta
     /\ m_lastError = s.m_lastError
     /\ m_logLines = s.m_logLines
     /\ m_lastJson = s.m_lastJson
     /\ m_roundTripTimer = s.m_roundTripTimer
     /\ m_roundTripActive = s.m_roundTripActive
     /\ m_lastRoundTripMs = s.m_lastRoundTripMs
     /\ m_lastPayloadBytes = s.m_lastPayloadBytes
     /\ logCap = s.logCap
     /\ emitted = s.emitted
     /\ outbound = s.outbound
     /\ call = [op |-> "WebSocketClient"]
     /\ awaiting = FALSE
     /\ disconnects = 0

Init == Constructed(LogWindow)

(***************************************************************************)
(* Actions: the environment runs a slot                                    *)
(***************************************************************************)
\* the timer without setSingleShot(true): it stays armed when it fires
tryReconnectRepeating ==
  /\ m_reconnectTimer.active
  /\ Store(connectNow(Members))
  /\ call' = [op |-> "tryReconnect"]
  /\ UNCHANGED <<awaiting, disconnects>>

\* the reconnect timer fires (single shot) and runs tryReconnect
tryReconnect ==
  /\ m_reconnectTimer.active
  /\ Store(connectNow([Members EXCEPT !.m_reconnectTimer.active = FALSE]))
  /\ call' = [op |-> "tryReconnect"]
  /\ UNCHANGED <<awaiting, disconnects>>

\* the handshake succeeds: QWebSocket::connected
WsConnected ==
  /\ m_ws.state = "Connecting"
  /\ Store(onConnected([Members EXCEPT !.m_ws.state = "Connected"]))
  /\ call' = [op |-> "onConnected"]
  /\ disconnects' = 0
  /\ UNCHANGED awaiting

\* the handshake fails: QWebSocket::disconnected without connected before
WsHandshakeFailed(maxAttempt) ==
  /\ m_ws.state = "Connecting"
  /\ m_reconnectAttempt < maxAttempt
  /\ Store(onDisconnected([Members EXCEPT !.m_ws.state = "Unconnected"]))
  /\ call' = [op |-> "onDisconnected"]
  /\ disconnects' = disconnects + 1
  /\ UNCHANGED awaiting

\* the peer closes or the connection drops: QWebSocket::disconnected
WsClosed(maxAttempt) ==
  /\ m_ws.state = "Connected"
  /\ m_reconnectAttempt < maxAttempt
  /\ Store(onDisconnected([Members EXCEPT !.m_ws.state = "Unconnected"]))
  /\ call' = [op |-> "onDisconnected"]
  /\ disconnects' = disconnects + 1
  /\ UNCHANGED awaiting

\* the transport reports an error: QWebSocket::errorOccurred
WsError ==
  /\ m_ws.state \in {"Connecting", "Connected"}
  /\ \E text \in SocketErrors :
       Store(onErrorOccurred([Members EXCEPT !.m_ws.errorString = text]))
  /\ call' = [op |-> "onErrorOccurred"]
  /\ UNCHANGED <<awaiting, disconnects>>

\* a text message arrives: QWebSocket::textMessageReceived
WsTextMessage(messages) ==
  /\ m_ws.state = "Connected"
  /\ \E message \in messages :
       /\ Store(onTextMessageReceived(Members, message))
       /\ call' = [op |-> "onTextMessageReceived", message |-> message]
  /\ awaiting' = FALSE
  /\ UNCHANGED disconnects

\* the UI calls step()
UiStep ==
  \E a \in StepCalls :
    LET s == step(Members, a.prompt, a.temperature, a.topK, a.topP,
                  a.vizLayer, a.vizHead)
    IN /\ Store(s)
       /\ call' = [op |-> "step", args |-> a]
       /\ awaiting' = (awaiting \/ s.outbound # <<>>)
       /\ UNCHANGED disconnects

\* the UI calls clearLog()
UiClearLog ==
  /\ Store(clearLog(Members))
  /\ call' = [op |-> "clearLog"]
  /\ UNCHANGED <<awaiting, disconnects>>

\* a millisecond passes on the round-trip timer
Tick ==
  /\ m_roundTripTimer < MaxElapsed
  /\ Store([Members EXCEPT !.m_roundTripTimer = @ + 1])
  /\ call' = [op |-> "tick"]
  /\ UNCHANGED <<awaiting, disconnects>>

(***************************************************************************)
(* Spec: the connection state machine, with a backend that answers with a  *)
(* reply, a backend error or garbage.                                      *)
(***************************************************************************)
Next ==
  \/ tryReconnect
  \/ WsConnected
  \/ WsHandshakeFailed(MaxAttempt)
  \/ WsClosed(MaxAttempt)
  \/ WsError
  \/ WsTextMessage(ConnMessages)
  \/ UiStep
  \/ UiClearLog
  \/ Tick

Spec == Init /\ [][Next]_vars

(***************************************************************************)
(* SpecMsg: the same client with a backend that sends every shape of       *)
(* message, over a connection that is lost at most MsgMaxAttempt times in  *)
(* a row; every message arrives in the millisecond of its request and the  *)
(* transport reports no error text.                                        *)
(***************************************************************************)
NextMsg ==
  \/ tryReconnect
  \/ WsConnected
  \/ WsHandshakeFailed(MsgMaxAttempt)
  \/ WsClosed(MsgMaxAttempt)
  \/ WsTextMessage(Messages)
  \/ UiStep
  \/ UiClearLog

SpecMsg == Init /\ [][NextMsg]_vars

(***************************************************************************)
(* SpecLive: the connection state machine with the round-trip clock        *)
(* standing still, and with the scheduling the event loop gives: an armed  *)
(* reconnect timer fires, and the transport answers every open() with      *)
(* connected or disconnected.                                              *)
(***************************************************************************)
NextLive ==
  \/ tryReconnect
  \/ WsConnected
  \/ WsHandshakeFailed(MaxAttempt)
  \/ WsClosed(MaxAttempt)
  \/ WsError
  \/ WsTextMessage(ConnMessages)
  \/ UiStep
  \/ UiClearLog

SpecLive ==
  /\ Init
  /\ [][NextLive]_vars
  /\ WF_vars(tryReconnect)
  /\ WF_vars(WsConnected \/ WsHandshakeFailed(MaxAttempt))

(***************************************************************************)
(* SpecLog: the client with its log of MAX_LOG_LINES lines and a backend   *)
(* that is not there: every attempt fails and is retried, each round       *)
(* writing a "DISCONNECTED" and a "Connecting" line.                       *)
(***************************************************************************)
InitLog == Constructed(MAX_LOG_LINES)

NextLog ==
  \/ tryReconnect
  \/ WsHandshakeFailed(LogAttempts)

SpecLog == InitLog /\ [][NextLog]_vars

(***************************************************************************)
(* SpecFrame: every slot of the client, transport errors included, with a  *)
(* backend that sends telemetry, so that the frame and the last error both *)
(* have values to lose; the connection is lost at most MsgMaxAttempt times *)
(* in a row and the round-trip clock stands still.                         *)
(***************************************************************************)
NextFrame ==
  \/ tryReconnect
  \/ WsConnected
  \/ WsHandshakeFailed(MsgMaxAttempt)
  \/ WsClosed(MsgMaxAttempt)
  \/ WsError
  \/ WsTextMessage(FrameMessages)
  \/ UiStep
  \/ UiClearLog

SpecFrame == Init /\ [][NextFrame]_vars

(***************************************************************************)
(* Vocabulary of the properties                                            *)
(***************************************************************************)
Range(seq) == {seq[i] : i \in DOMAIN seq}
Count(seq, x) == Cardinality({i \in DOMAIN seq : seq[i] = x})

Facets ==
  <<m_generated, m_tokens, m_topk, m_sampledId, m_sampledToken, m_sampledProb,
    m_attentionLayer, m_attentionHead, m_attentionMatrix, m_mlpLayer,
    m_mlpActivations, m_residualLayer, m_residualNorms, m_residualLayersLast,
    m_device, m_done, m_meta>>

FacetKeys ==
  {"tokens", "generated", "sampled", "topk", "attention", "mlp", "residual",
   "residual_layers_last", "meta"}

SignalOf(key) ==
  CASE key = "tokens" -> "tokensChanged"
    [] key = "generated" -> "generatedChanged"
    [] key = "sampled" -> "sampledChanged"
    [] key = "topk" -> "topkChanged"
    [] key = "attention" -> "attentionChanged"
    [] key = "mlp" -> "mlpChanged"
    [] key = "residual" -> "residualChanged"
    [] key = "residual_layers_last" -> "residualLayersLastChanged"
    [] key = "meta" -> "metaChanged"

FacetSignals == {SignalOf(key) : key \in FacetKeys}

FacetOf(key) ==
  CASE key = "tokens" -> <<m_tokens>>
    [] key = "generated" -> <<m_generated>>
    [] key = "sampled" -> <<m_sampledId, m_sampledToken, m_sampledProb>>
    [] key = "topk" -> <<m_topk>>
    [] key = "attention" ->
         <<m_attentionLayer, m_attentionHead, m_attentionMatrix>>
    [] key = "mlp" -> <<m_mlpLayer, m_mlpActivations>>
    [] key = "residual" -> <<m_residualLayer, m_residualNorms>>
    [] key = "residual_layers_last" -> <<m_residualLayersLast>>
    [] key = "meta" -> <<m_meta, m_device, m_done>>

\* the JSON type the wire shape gives the facet ("any": none is asked for)
WireType(key) ==
  CASE key \in {"tokens", "topk"} -> "array"
    [] key \in {"sampled", "attention", "mlp", "residual", "meta"} -> "object"
    [] OTHER -> "any"

IsParsedObject(message) == message.error = "NoError" /\ message.doc.t = "object"
CarriesError(message) ==
  IsParsedObject(message) /\ "error" \in DOMAIN message.doc.o
IsTelemetry(message) == IsParsedObject(message) /\ ~CarriesError(message)
KeyPresent(message, key) ==
  IsParsedObject(message) /\ key \in DOMAIN message.doc.o
KeyWellTyped(message, key) ==
  /\ KeyPresent(message, key)
  /\ WireType(key) \in {"any", message.doc.o[key].t}

Received == call.op = "onTextMessageReceived"
Stepped == call.op = "step"

(***************************************************************************)
(* C1. step() while the client is not connected, with any arguments,       *)
(* sends nothing, leaves a non-empty "not connected" text in the last      *)
(* error, and leaves busy, the pending round-trip flag and the connection  *)
(* state as they were.                                                     *)
(***************************************************************************)
C1_StepWhileNotConnected ==
  [][(Stepped' /\ ~m_connected) =>
       /\ outbound' = <<>>
       /\ m_lastError' # ""
       /\ m_lastError' = "Not connected to backend (ws://localhost:8765)."
       /\ UNCHANGED <<m_busy, m_roundTripActive, m_connected, m_ws>>]_vars

C1_Witness ==
  /\ Stepped
  /\ ~m_connected
  /\ m_ws.state = "Unconnected"
  /\ m_roundTripActive
  /\ m_lastError = "Not connected to backend (ws://localhost:8765)."
  /\ outbound = <<>>

(***************************************************************************)
(* C2. busy is true only while the client is connected and a request has   *)
(* been sent with no text message received since; busy is false right      *)
(* after any text message (decodable or not) and right after a disconnect. *)
(***************************************************************************)
C2_BusyOnlyWhileAwaiting ==
  /\ m_busy => (m_connected /\ m_ws.state = "Connected" /\ awaiting)
  /\ (Received \/ call.op = "onDisconnected") => ~m_busy

C2_Witness == m_busy /\ m_connected /\ awaiting /\ Stepped

(***************************************************************************)
(* C3. step() while connected sends exactly one request, whose fields are  *)
(* prompt, temperature, top_k, top_p, viz_layer and viz_head with the      *)
(* caller's values and step = true; it marks the round trip pending and    *)
(* ends busy, and busyChanged is emitted (once) exactly when busy was      *)
(* false before.                                                           *)
(***************************************************************************)
C3_StepWhileConnected ==
  [][(Stepped' /\ m_connected) =>
       LET a == call'.args IN
       /\ Len(outbound') = 1
       /\ DOMAIN outbound'[1].o =
            {"prompt", "temperature", "top_k", "top_p", "step", "viz_layer",
             "viz_head"}
       /\ outbound'[1].o.prompt = [t |-> "string", s |-> a.prompt]
       /\ outbound'[1].o.temperature = [t |-> "double", h |-> a.temperature]
       /\ outbound'[1].o.top_k = [t |-> "double", h |-> 100 * a.topK]
       /\ outbound'[1].o.top_p = [t |-> "double", h |-> a.topP]
       /\ outbound'[1].o.step = [t |-> "bool", b |-> TRUE]
       /\ outbound'[1].o.viz_layer = [t |-> "double", h |-> 100 * a.vizLayer]
       /\ outbound'[1].o.viz_head = [t |-> "double", h |-> 100 * a.vizHead]
       /\ m_roundTripActive'
       /\ m_busy'
       /\ Count(emitted', "busyChanged") = (IF m_busy THEN 0 ELSE 1)]_vars

C3_Witness ==
  /\ Stepped
  /\ m_connected
  /\ Len(outbound) = 1
  /\ outbound[1].o.prompt.s = "hello"
  /\ m_busy
  /\ m_roundTripActive
  /\ "busyChanged" \in Range(emitted)

ClaimedDelay(n) == Min(5000, 250 * 2 ^ Min(n, 5))
ClaimedDelays == <<250, 500, 1000, 2000, 4000, 5000, 5000, 5000>>

(***************************************************************************)
(* C4. Every onDisconnected() arms the reconnect timer with the delay      *)
(* min(5000, 250 * 2^min(n, 5)) ms, n being the attempt counter before the *)
(* call, and leaves the counter at n + 1: consecutive disconnects give     *)
(* 250, 500, 1000, 2000, 4000, 5000, 5000, 5000, ...                       *)
(***************************************************************************)
C4_BackoffDelay ==
  [][call'.op = "onDisconnected" =>
       LET n == m_reconnectAttempt IN
       /\ m_reconnectTimer'.active
       /\ m_reconnectTimer'.interval = ClaimedDelay(n)
       /\ n < Len(ClaimedDelays) => m_reconnectTimer'.interval = ClaimedDelays[n + 1]
       /\ n >= Len(ClaimedDelays) => m_reconnectTimer'.interval = 5000
       /\ m_reconnectAttempt' = n + 1]_vars

C4_Witness ==
  /\ call.op = "onDisconnected"
  /\ m_reconnectAttempt = 8
  /\ m_reconnectTimer.active
  /\ m_reconnectTimer.interval = 5000

(***************************************************************************)
(* C5. A text message whose object has an error key sets the last error    *)
(* to the string of that field and changes no telemetry facet and emits no *)
(* facet signal, also when the message has facet keys.                     *)
(***************************************************************************)
C5_ErrorMessageLeavesFacets ==
  [][(Received' /\ CarriesError(call'.message)) =>
       LET e == call'.message.doc.o.error IN
       /\ m_lastError' = (IF e.t = "string" THEN e.s ELSE "")
       /\ UNCHANGED Facets
       /\ Range(emitted') \cap FacetSignals = {}]_vars

C5_Witness ==
  /\ Received
  /\ call.message = MsgError
  /\ m_lastError = "x"
  /\ m_tokens = <<"a", "b">>
  /\ m_generated = "hi"
  /\ m_device = "cpu"

C7_Original ==
  [][Received' =>
       \A key \in FacetKeys :
         SignalOf(key) \in Range(emitted') <=> KeyPresent(call'.message, key)]_vars

(***************************************************************************)
(* C7 as amended.  For every text message and every facet, the facet's     *)
(* signal is emitted (once) while the message is handled if and only if    *)
(* the message parses to an object without an error key and the facet's    *)
(* key is present in it with the JSON type the decoder asks for (an array  *)
(* for tokens and topk, an object for sampled, attention, mlp, residual    *)
(* and meta, any type for generated and residual_layers_last), whether or  *)
(* not the new value equals the old one.                                   *)
(***************************************************************************)
C7_SignalIffDecoded ==
  [][Received' =>
       \A key \in FacetKeys :
         /\ SignalOf(key) \in Range(emitted') <=>
              (IsTelemetry(call'.message) /\ KeyWellTyped(call'.message, key))
         /\ Count(emitted', SignalOf(key)) <= 1]_vars

\* the same tokens message twice in a row: the second one changes neither
\* the raw payload nor the tokens, and tokensChanged is emitted again
C7_Witness ==
  /\ Received
  /\ call.message = MsgTokensAB
  /\ "lastJsonChanged" \notin Range(emitted)
  /\ "tokensChanged" \in Range(emitted)
  /\ m_tokens = <<"a", "b">>

(***************************************************************************)
(* C8. After a parsed object without an error key whose tokens array has n *)
(* entries, the stored tokens are the last min(n, 256) entries in their    *)
(* order (of the long array: from entry LongTokens - 256 on, counted from  *)
(* 0); the stored list never has more than 256 entries.                    *)
(***************************************************************************)
C8_TokensTail ==
  /\ [](Len(m_tokens) <= 256)
  /\ [][(Received' /\ IsTelemetry(call'.message)
           /\ KeyWellTyped(call'.message, "tokens")) =>
          LET arr == call'.message.doc.o.tokens.a
              n == Len(arr)
              k == Min(n, 256)
          IN /\ Len(m_tokens') = k
             /\ \A i \in 1..k : m_tokens'[i] = arr[n - k + i].s
             /\ n = LongTokens =>
                  /\ m_tokens'[1] = ToString(LongTokens - 256)
                  /\ m_tokens'[256] = ToString(LongTokens - 1)]_vars

C8_Witness ==
  /\ Received
  /\ call.message = MsgTokensLong
  /\ Len(m_tokens) = 256
  /\ m_tokens[1] = "44"
  /\ m_tokens[2] = "45"
  /\ m_tokens[256] = "299"

(***************************************************************************)
(* C9. A text message that arrives while a round trip is pending, be it    *)
(* decodable or not, an error or not, stores the milliseconds since the    *)
(* last sent step() (never below 0) as the last round trip, ends the       *)
(* pending measurement and leaves busy false; a text message that arrives  *)
(* while none is pending leaves the last round trip as it was.  A sent     *)
(* step() restarts the timer the milliseconds are read from.               *)
(***************************************************************************)
C9_RoundTrip ==
  [][/\ Received' =>
          /\ ~m_roundTripActive'
          /\ ~m_busy'
          /\ m_roundTripActive =>
               /\ m_lastRoundTripMs' = m_roundTripTimer
               /\ m_lastRoundTripMs' >= 0
          /\ ~m_roundTripActive => m_lastRoundTripMs' = m_lastRoundTripMs
     /\ (Stepped' /\ outbound' # <<>>) => m_roundTripTimer' = 0
     /\ call'.op = "tick" => m_roundTripTimer' = m_roundTripTimer + 1]_vars

C9_Witness ==
  /\ Received
  /\ call.message = MsgMalformed
  /\ m_lastRoundTripMs = 2
  /\ m_roundTripTimer = 2
  /\ "perfChanged" \in Range(emitted)
  /\ "busyChanged" \in Range(emitted)
  /\ ~m_roundTripActive
  /\ ~m_busy

(***************************************************************************)
(* C10. With an armed timer firing and the transport answering every       *)
(* open(): a client that is not connected and has no attempt under way     *)
(* gets a new connect() attempt, and every attempt ends connected or with  *)
(* the reconnect scheduled, after any number of failures; every            *)
(* disconnect, whether after an error, a failed handshake or a close,      *)
(* leaves the client disconnected with the reconnect timer armed, and a    *)
(* client that is not connected always has the timer armed or an attempt   *)
(* under way.                                                              *)
(***************************************************************************)
C10_ReconnectForever ==
  /\ [](~m_connected => (m_reconnectTimer.active \/ m_ws.state = "Connecting"))
  /\ [](call.op = "onDisconnected" => (~m_connected /\ m_reconnectTimer.active))
  /\ (~m_connected /\ m_ws.state # "Connecting") ~> (m_ws.state = "Connecting")
  /\ (m_ws.state = "Connecting") ~> (m_connected \/ m_reconnectTimer.active)

C10_Witness ==
  /\ call.op = "tryReconnect"
  /\ m_ws.state = "Connecting"
  /\ m_reconnectAttempt = 8
  /\ ~m_connected
  /\ ~m_reconnectTimer.active

\* line k (from 1) of the lines written while the backend is not there
ClaimedLine(k) ==
  IF k = 1 THEN "Connecting to ws://localhost:8765..."
  ELSE IF k % 2 = 0
       THEN "DISCONNECTED (reconnect in "
              \o ToString(ClaimedDelay((k \div 2) - 1)) \o "ms)"
       ELSE "Connecting to ws://localhost:8765 (attempt "
              \o ToString(k \div 2) \o ")..."
\* lines written so far while the backend is not there
Appended ==
  2 * m_reconnectAttempt + (IF m_ws.state = "Connecting" THEN 1 ELSE 0)

(***************************************************************************)
(* C11. The log never holds more than 500 lines.  An append to a log of    *)
(* fewer than 500 lines adds the line at the end; an append to a log of    *)
(* 500 lines drops exactly the oldest line, keeps the other 499 in their   *)
(* order and puts the new line last.  After 600 appends the log holds      *)
(* lines 101..600 in order.                                                *)
(***************************************************************************)
C11_LogCap ==
  /\ [](logCap = 500 /\ Len(m_logLines) <= 500)
  /\ [](\A i \in DOMAIN m_logLines :
          m_logLines[i] = ClaimedLine(Appended - Len(m_logLines) + i))
  /\ [](Appended = 600 =>
          /\ Len(m_logLines) = 500
          /\ m_logLines[1] = ClaimedLine(101)
          /\ m_logLines[500] = ClaimedLine(600))
  /\ [][Count(emitted', "logLinesChanged") = 1 =>
          LET line == m_logLines'[Len(m_logLines')] IN
          /\ line = ClaimedLine(Appended + 1)
          /\ Len(m_logLines) < 500 => m_logLines' = Append(m_logLines, line)
          /\ Len(m_logLines) = 500 =>
               m_logLines' = Append(Tail(m_logLines), line)]_vars

C11_Witness ==
  /\ Appended = 600
  /\ Len(m_logLines) = 500
  /\ m_logLines[1] = "Connecting to ws://localhost:8765 (attempt 50)..."
  /\ m_logLines[500] = "DISCONNECTED (reconnect in 5000ms)"
  /\ call.op = "onDisconnected"

\* every member but the log
MembersButLog ==
  <<m_ws, m_reconnectTimer, m_reconnectAttempt, m_connected, m_busy, Facets,
    m_lastError, m_lastJson, m_roundTripTimer, m_roundTripActive,
    m_lastRoundTripMs, m_lastPayloadBytes>>

(***************************************************************************)
(* C12. clearLog() on a log that is not empty empties it and emits         *)
(* logLinesChanged exactly once and nothing else; on an empty log it       *)
(* changes nothing and emits nothing.  A clearLog() right after a          *)
(* clearLog() finds the log empty and is such a no-op.  No other member    *)
(* changes in either case.                                                 *)
(***************************************************************************)
C12_ClearLog ==
  [][call'.op = "clearLog" =>
       /\ m_logLines # <<>> =>
            (m_logLines' = <<>> /\ emitted' = <<"logLinesChanged">>)
       /\ m_logLines = <<>> => (m_logLines' = <<>> /\ emitted' = <<>>)
       /\ call.op = "clearLog" => (m_logLines = <<>> /\ emitted' = <<>>)
       /\ outbound' = <<>>
       /\ UNCHANGED MembersButLog]_vars

\* the second of two calls in a row
C12_Witness ==
  /\ call.op = "clearLog"
  /\ m_logLines = <<>>
  /\ emitted = <<>>

(***************************************************************************)
(* C13 as claimed.  Whenever the client is not connected, the state right  *)
(* after construction and the state between the firing of the timer and    *)
(* the success of the attempt included, the reconnect timer is pending.    *)
(***************************************************************************)
C13_Original == ~m_connected => m_reconnectTimer.active

(***************************************************************************)
(* C13 as amended.  Whenever the client is not connected and no attempt is *)
(* under way, the reconnect timer is pending; whenever an attempt is under *)
(* way (right after construction, and from the firing of the timer until   *)
(* the attempt succeeds or fails) the client is not connected and no       *)
(* reconnect timer is pending.                                             *)
(***************************************************************************)
C13_TimerWhileDisconnected ==
  /\ m_ws.state = "Unconnected" => (~m_connected /\ m_reconnectTimer.active)
  /\ m_ws.state = "Connecting" => (~m_connected /\ ~m_reconnectTimer.active)
  /\ ~m_connected => m_ws.state \in {"Unconnected", "Connecting"}

C13_Witness ==
  /\ m_ws.state = "Unconnected"
  /\ ~m_connected
  /\ m_reconnectTimer.active
  /\ m_reconnectTimer.interval = 1000
  /\ m_reconnectAttempt = 3

(***************************************************************************)
(* C14. While the client is connected there is neither a connection        *)
(* attempt under way nor a reconnect timer pending.  connect() runs only   *)
(* at construction and when the reconnect timer fires; when it runs, the   *)
(* socket is unconnected, so no attempt is under way, and the timer that   *)
(* fired is no longer pending: attempts never overlap.  The timer is armed *)
(* only by onDisconnected(), and only while it is not pending, so there is *)
(* never a second one.                                                     *)
(***************************************************************************)
C14_NoOverlap ==
  /\ [](m_connected => (m_ws.state = "Connected" /\ ~m_reconnectTimer.active))
  /\ [](m_ws.state = "Connected" => (m_connected /\ ~m_reconnectTimer.active))
  /\ [](call.op = "WebSocketClient" =>
          (m_ws.state = "Connecting" /\ ~m_reconnectTimer.active))
  /\ [][call'.op = "tryReconnect" =>
          /\ m_ws.state = "Unconnected"
          /\ ~m_connected
          /\ m_reconnectTimer.active
          /\ ~m_reconnectTimer'.active
          /\ m_ws'.state = "Connecting"]_vars
  /\ [][(m_ws'.state = "Connecting" /\ m_ws.state # "Connecting") =>
          call'.op = "tryReconnect"]_vars
  /\ [][(m_reconnectTimer'.active /\ ~m_reconnectTimer.active) =>
          call'.op = "onDisconnected"]_vars
  /\ [][call'.op = "onDisconnected" => ~m_reconnectTimer.active]_vars

C14_Witness ==
  /\ call.op = "tryReconnect"
  /\ m_ws.state = "Connecting"
  /\ ~m_reconnectTimer.active
  /\ m_reconnectTimer.interval = 500
  /\ m_reconnectAttempt = 2
  /\ m_logLines = <<"Connecting to ws://localhost:8765 (attempt 2)...">>

(***************************************************************************)
(* C15. The attempt counter is never negative; onDisconnected() adds one   *)
(* to it, onConnected() leaves it 0 whatever it was, and nothing else      *)
(* changes it; so it always equals the number of disconnects since the     *)
(* last successful connect (since construction, before the first one).     *)
(***************************************************************************)
C15_AttemptCounter ==
  /\ [](m_reconnectAttempt >= 0)
  /\ [](m_reconnectAttempt = disconnects)
  /\ [](call.op = "onConnected" => m_reconnectAttempt = 0)
  /\ [][m_reconnectAttempt' =
          (CASE call'.op = "onDisconnected" -> m_reconnectAttempt + 1
             [] call'.op = "onConnected" -> 0
             [] OTHER -> m_reconnectAttempt)]_vars

\* a successful connect after more than five failures in a row
C15_Witness ==
  /\ call.op = "onConnected"
  /\ m_reconnectAttempt = 0
  /\ disconnects = 0
  /\ m_reconnectTimer.interval = 5000
  /\ m_connected

(***************************************************************************)
(* C16 as claimed.  The last error is empty right after connect() has      *)
(* started an attempt, after onConnected() and after a parsed object       *)
(* without an error key; it is not empty right after a socket error, after *)
(* a text that does not parse to an object, and after a parsed object with *)
(* an error key.                                                           *)
(***************************************************************************)
C16_Original ==
  /\ call.op \in {"WebSocketClient", "tryReconnect", "onConnected"} =>
       m_lastError = ""
  /\ (Received /\ IsTelemetry(call.message)) => m_lastError = ""
  /\ call.op = "onErrorOccurred" => m_lastError # ""
  /\ (Received /\ ~IsParsedObject(call.message)) => m_lastError # ""
  /\ (Received /\ CarriesError(call.message)) => m_lastError # ""

(***************************************************************************)
(* C16 as amended.  The last error is empty right after connect() has      *)
(* started an attempt, after onConnected() and after a parsed object       *)
(* without an error key; right after a socket error it is the transport's  *)
(* error text and not empty; right after a text that does not parse to an  *)
(* object it is "JSON parse error: " and the parser's description; right   *)
(* after a parsed object with an error key it is the text of that field if *)
(* the field is a string and empty otherwise, so it is not empty exactly   *)
(* when the field is a string that is not empty.                           *)
(***************************************************************************)
C16_ErrorState ==
  /\ call.op \in {"WebSocketClient", "tryReconnect", "onConnected"} =>
       m_lastError = ""
  /\ (Received /\ IsTelemetry(call.message)) => m_lastError = ""
  /\ call.op = "onErrorOccurred" =>
       (m_lastError = m_ws.errorString /\ m_lastError # "")
  /\ (Received /\ ~IsParsedObject(call.message)) =>
       /\ m_lastError \in {"JSON parse error: illegal value",
                           "JSON parse error: no error occurred"}
       /\ m_lastError # ""
  /\ (Received /\ CarriesError(call.message)) =>
       LET e == call.message.doc.o.error IN
       /\ m_lastError = (IF e.t = "string" THEN e.s ELSE "")
       /\ m_lastError # "" <=> (e.t = "string" /\ e.s # "")

\* an error object with a number clears the error the one before it had set
C16_Witness ==
  /\ Received
  /\ call.message = MsgErrorNumber
  /\ m_lastError = ""
  /\ "lastErrorChanged" \in Range(emitted)
  /\ m_logLines = <<"BACKEND ERROR: ">>

\* the log after one more line, as the claims have it: the line last, the
\* oldest lines gone beyond the cap
LogAfter(log, line) ==
  LET a == Append(log, line)
      n == Min(Len(a), logCap)
  IN [i \in 1..n |-> a[Len(a) - n + i]]

(***************************************************************************)
(* C17. A text message that is malformed, or whose top level is not an     *)
(* object, leaves a parse-error description that is not empty in the last  *)
(* error, appends one log line, changes no facet and emits no facet        *)
(* signal; the raw text and the payload size are stored, a pending round   *)
(* trip is resolved with the elapsed milliseconds and busy is cleared (and *)
(* notified if it was set) all the same.                                   *)
(***************************************************************************)
C17_ParseFailure ==
  [][(Received' /\ ~IsParsedObject(call'.message)) =>
       LET msg == call'.message
           description == IF msg.error = "NoError"
                          THEN "no error occurred" ELSE "illegal value"
       IN
       /\ m_lastError' = "JSON parse error: " \o description
       /\ m_lastError' # ""
       /\ Count(emitted', "logLinesChanged") = 1
       /\ m_logLines' =
            LogAfter(m_logLines, "RECV INVALID JSON (" \o ToString(msg.size)
                                   \o " bytes): " \o description)
       /\ UNCHANGED Facets
       /\ Range(emitted') \cap FacetSignals = {}
       /\ m_lastJson' = msg.text
       /\ "lastJsonChanged" \in Range(emitted') <=> m_lastJson # msg.text
       /\ m_lastPayloadBytes' = msg.size
       /\ ~m_roundTripActive'
       /\ m_lastRoundTripMs' =
            (IF m_roundTripActive THEN m_roundTripTimer ELSE m_lastRoundTripMs)
       /\ "perfChanged" \in Range(emitted') <=>
            (m_lastPayloadBytes' # m_lastPayloadBytes
               \/ m_lastRoundTripMs' # m_lastRoundTripMs)
       /\ ~m_busy'
       /\ Count(emitted', "busyChanged") = (IF m_busy THEN 1 ELSE 0)]_vars

\* "[1]" answers a request after one millisecond
C17_Witness ==
  /\ Received
  /\ call.message = MsgArray
  /\ m_lastError = "JSON parse error: no error occurred"
  /\ m_lastJson = "[1]"
  /\ m_lastPayloadBytes = 3
  /\ m_lastRoundTripMs = 1
  /\ m_roundTripTimer = 1
  /\ "busyChanged" \in Range(emitted)
  /\ "perfChanged" \in Range(emitted)

(***************************************************************************)
(* C18. onErrorOccurred() stores the transport's error text as the last    *)
(* error and appends one log line with it; it leaves the connected flag,   *)
(* the socket state, busy, the pending round-trip flag, the attempt        *)
(* counter, the reconnect timer and the facets as they were and sends      *)
(* nothing.  The connected flag goes from true to false only in            *)
(* onDisconnected().                                                       *)
(***************************************************************************)
C18_TransportError ==
  /\ [][call'.op = "onErrorOccurred" =>
          /\ m_lastError' = m_ws'.errorString
          /\ "lastErrorChanged" \in Range(emitted') <=> m_lastError' # m_lastError
          /\ Count(emitted', "logLinesChanged") = 1
          /\ m_logLines' =
               LogAfter(m_logLines, "SOCKET ERROR: " \o m_ws'.errorString)
          /\ Range(emitted') \subseteq {"lastErrorChanged", "logLinesChanged"}
          /\ m_ws'.state = m_ws.state
          /\ outbound' = <<>>
          /\ UNCHANGED <<m_connected, m_busy, m_roundTripActive,
                         m_reconnectAttempt, m_reconnectTimer, Facets>>]_vars
  /\ [][(m_connected /\ ~m_connected') => call'.op = "onDisconnected"]_vars
  /\ [][(m_ws'.state # m_ws.state) =>
          call'.op \in {"tryReconnect", "onConnected", "onDisconnected"}]_vars

\* an error on a connection with a request under way
C18_Witness ==
  /\ call.op = "onErrorOccurred"
  /\ m_lastError = "Connection refused"
  /\ m_logLines = <<"SOCKET ERROR: Connection refused">>
  /\ m_connected
  /\ m_busy
  /\ m_roundTripActive
  /\ ~m_reconnectTimer.active

(***************************************************************************)
(* C19 as claimed.  The facets and the last error change only while a text *)
(* message is handled: step(), connect() at the firing of the timer,       *)
(* onConnected(), onDisconnected(), onErrorOccurred() and clearLog() leave *)
(* them all unchanged.                                                     *)
(***************************************************************************)
C19_Original ==
  [][~Received' => UNCHANGED <<Facets, m_lastError>>]_vars

(***************************************************************************)
(* C19 as amended.  The facets change only while a text message is         *)
(* handled.  The last error changes there, and besides only in step()      *)
(* while not connected (which sets the "not connected" text), in connect() *)
(* at the firing of the timer and in onConnected() (which clear it), and   *)
(* in onErrorOccurred() (which sets the transport's text); step() while    *)
(* connected, onDisconnected() and clearLog() leave the facets and the     *)
(* last error unchanged.                                                   *)
(***************************************************************************)
C19_FrameWriters ==
  /\ [][~Received' => UNCHANGED Facets]_vars
  /\ [][(call'.op \in {"onDisconnected", "clearLog"}
           \/ (Stepped' /\ m_connected)) =>
          UNCHANGED <<Facets, m_lastError>>]_vars
  /\ [][(Stepped' /\ ~m_connected) =>
          m_lastError' = "Not connected to backend (ws://localhost:8765)."]_vars
  /\ [][call'.op \in {"tryReconnect", "onConnected"} => m_lastError' = ""]_vars
  /\ [][call'.op = "onErrorOccurred" => m_lastError' = m_ws'.errorString]_vars

\* a frame and a backend error that have outlived the connection
C19_Witness ==
  /\ call.op = "onDisconnected"
  /\ m_tokens = <<"a", "b">>
  /\ m_generated = "hi"
  /\ m_device = "cpu"
  /\ m_lastError = "x"
  /\ ~m_connected

(***************************************************************************)
(* C20. step() on a connected client that is busy is not refused and not   *)
(* queued: it sends its request at once, restarts the round-trip timer,    *)
(* leaves busy and the pending flag set and emits no busyChanged.  The     *)
(* next text message clears busy and stores the milliseconds since the     *)
(* latest step() as the round trip.  A message that comes with no step()   *)
(* since the message before finds busy false and no round trip pending,    *)
(* and leaves the last round trip as it is, with no busyChanged.           *)
(***************************************************************************)
C20_StepWhileBusy ==
  /\ [][(Stepped' /\ m_connected /\ m_busy) =>
          /\ Len(outbound') = 1
          /\ outbound'[1].o.prompt = [t |-> "string", s |-> call'.args.prompt]
          /\ m_roundTripTimer' = 0
          /\ m_roundTripActive'
          /\ m_busy'
          /\ "busyChanged" \notin Range(emitted')
          /\ UNCHANGED <<m_lastError, m_lastRoundTripMs, m_connected>>]_vars
  /\ [][(Received' /\ m_busy) =>
          /\ m_roundTripActive
          /\ m_lastRoundTripMs' = m_roundTripTimer
          /\ ~m_busy'
          /\ ~m_roundTripActive'
          /\ Count(emitted', "busyChanged") = 1]_vars
  /\ [](Received => (~m_busy /\ ~m_roundTripActive))
  /\ [][((~m_busy /\ m_busy') \/ (~m_roundTripActive /\ m_roundTripActive')) =>
          Stepped']_vars
  /\ [][(Received' /\ ~m_roundTripActive) =>
          /\ ~m_busy
          /\ ~m_busy'
          /\ ~m_roundTripActive'
          /\ "busyChanged" \notin Range(emitted')
          /\ UNCHANGED m_lastRoundTripMs]_vars

\* the second of two requests with no message between them
C20_Witness ==
  /\ Stepped
  /\ call.args.prompt = ""
  /\ m_connected
  /\ m_busy
  /\ m_roundTripActive
  /\ m_roundTripTimer = 0
  /\ Len(outbound) = 1
  /\ "busyChanged" \notin Range(emitted)
  /\ m_logLines = <<"STEP reset=no temp=1.00 topk=5 topp=0.95 layer=0 head=0">>

(***************************************************************************)
(* C21 as claimed.  A round trip is pending only while busy is true, and   *)
(* onDisconnected() leaves none pending; so a text message that comes      *)
(* after a reconnect with no step() since stores no round trip.            *)
(***************************************************************************)
C21_Original ==
  /\ m_roundTripActive => m_busy
  /\ call.op = "onDisconnected" => ~m_roundTripActive

(***************************************************************************)
(* C21 as amended.  busy implies that a round trip is pending, not the     *)
(* other way round: onDisconnected() clears busy and leaves the pending    *)
(* flag, the round-trip timer and the last round trip as they were.  Only  *)
(* a text message ends a pending round trip; a text message that comes     *)
(* after a reconnect with no step() since, the round trip of the earlier   *)
(* connection still pending, stores the milliseconds since that step().    *)
(***************************************************************************)
C21_PendingOutlivesBusy ==
  /\ [](m_busy => m_roundTripActive)
  /\ [][call'.op = "onDisconnected" =>
          /\ ~m_busy'
          /\ UNCHANGED <<m_roundTripActive, m_roundTripTimer,
                         m_lastRoundTripMs>>]_vars
  /\ [][(m_roundTripActive /\ ~m_roundTripActive') => Received']_vars
  /\ [][(Received' /\ m_roundTripActive /\ ~m_busy) =>
          /\ m_lastRoundTripMs' = m_roundTripTimer
          /\ ~m_roundTripActive'
          /\ "busyChanged" \notin Range(emitted')]_vars

\* connected again, two milliseconds after the request that the earlier
\* connection took, its round trip still pending
C21_Witness ==
  /\ call.op = "onConnected"
  /\ m_connected
  /\ ~m_busy
  /\ m_roundTripActive
  /\ m_roundTripTimer = 2
  /\ m_lastRoundTripMs = 0

(***************************************************************************)
(* C22 as claimed.  connectedChanged is emitted only by a slot that        *)
(* changes the connected flag, a disconnect after a failed handshake       *)
(* included.                                                               *)
(***************************************************************************)
C22_Original ==
  []["connectedChanged" \in Range(emitted') => m_connected' # m_connected]_vars

(***************************************************************************)
(* C22 as amended.  connectedChanged is emitted exactly once by every      *)
(* onConnected() and every onDisconnected() and by no other slot, and      *)
(* every change of the connected flag is notified.  onConnected() always   *)
(* changes the flag, from false to true; onDisconnected() changes it, from *)
(* true to false, when the connection had been made, and after a failed    *)
(* handshake it emits connectedChanged with the flag false before and      *)
(* after.                                                                  *)
(***************************************************************************)
C22_ConnectedChanged ==
  /\ [][Count(emitted', "connectedChanged") =
          (IF call'.op \in {"onConnected", "onDisconnected"} THEN 1 ELSE 0)]_vars
  /\ [][m_connected' # m_connected =>
          "connectedChanged" \in Range(emitted')]_vars
  /\ [][call'.op = "onConnected" => (~m_connected /\ m_connected')]_vars
  /\ [][call'.op = "onDisconnected" =>
          /\ ~m_connected'
          /\ m_connected <=> m_ws.state = "Connected"
          /\ m_ws.state = "Connecting" =>
               (~m_connected /\ "connectedChanged" \in Range(emitted'))]_vars

\* the second failed handshake in a row: the flag was false before it
C22_Witness ==
  /\ call.op = "onDisconnected"
  /\ m_reconnectAttempt = 2
  /\ ~m_connected
  /\ emitted = <<"connectedChanged", "logLinesChanged">>
  /\ m_reconnectTimer.interval = 500

====
